---- MODULE Spec2Model ----
(***************************************************************************)
(* Model of the guard generator (src/src/core.ts) and of the batch driver  *)
(* that calls it (src/scripts/stress-test.js).                             *)
(*                                                                         *)
(* Every text is a sequence of one-character strings, so that the regular  *)
(* expressions and the string templates of the source act on characters.   *)
(* A character that a TLA+ string cannot hold stands in a text under the   *)
(* name of its code point (LS, PS).                                        *)
(* The parser (ts.createSourceFile) and the printer (ts.createPrinter) are *)
(* the TypeScript library's: the model starts from the parsed tree, whose  *)
(* nodes carry the text spans the code reads (getText, getFullText,        *)
(* escapedText), and ends with the output unit handed to the printer.      *)
(***************************************************************************)
EXTENDS Integers, Sequences, FiniteSets, TLC

VARIABLES
    options,          \* GenerateOptions of the latest generateAst call
    outcome,          \* what that call returned or threw
    products,         \* the values the call computed on its way
    history,          \* every call so far: its options and its outcome
    returnTypeText,   \* argument of the latest getQueueMethodForReturnType call
    queueMethod,      \* its result
    pluginDirectories,\* stress test: the directories read from the clone
    cursor,           \* stress test: position of forEach in pluginDirectories
    runCount,         \* stress test: let runCount
    failures,         \* stress test: const failures
    written,          \* stress test: guard.ts files written so far
    phase,            \* stress test: where the script is
    uncaught          \* stress test: the exception that ended the script

genVars == <<options, outcome, products, history>>
clsVars == <<returnTypeText, queueMethod>>
drvVars == <<pluginDirectories, cursor, runCount, failures, written, phase,
            uncaught>>
vars == <<options, outcome, products, history, returnTypeText, queueMethod,
          pluginDirectories, cursor, runCount, failures, written, phase,
          uncaught>>

(***************************************************************************)
(* Bounds of the model.                                                    *)
(***************************************************************************)
MaxPieces == 4
MaxParams == 2
MaxMembers == 3
MaxStatements == 2
MaxCalls == 3
MaxDirs == 3

(***************************************************************************)
(* JavaScript values and string operations.                                *)
(***************************************************************************)
EmptyText == <<>>
\* undefined, null, and a string value (told apart by kind).
Undefined == [kind |-> "undefined"]
Null == [kind |-> "null"]
Str(text) == [kind |-> "string", text |-> text]
\* What stands for a key that an object literal does not have.
Absent == [kind |-> "absent"]

\* `${value}` in a template literal: a string as it is, undefined and null
\* as the characters of their names.
TemplateText(value) ==
    IF value.kind = "string" THEN value.text
    ELSE IF value.kind = "null" THEN <<"n", "u", "l", "l">>
    ELSE <<"u", "n", "d", "e", "f", "i", "n", "e", "d">>

\* The characters U+2028 (line separator) and U+2029 (paragraph separator).
LS == "U+2028"
PS == "U+2029"

\* Array.prototype.join: the parts separated by sep.
RECURSIVE Join(_, _)
Join(parts, sep) ==
    IF Len(parts) = 0 THEN EmptyText
    ELSE IF Len(parts) = 1 THEN parts[1]
    ELSE parts[1] \o sep \o Join(Tail(parts), sep)

\* Array.prototype.filter(v => v): the entries that are not null, in order.
RECURSIVE FilterTruthy(_)
FilterTruthy(s) ==
    IF Len(s) = 0 THEN <<>>
    ELSE IF s[1].kind = "null" THEN FilterTruthy(Tail(s))
    ELSE <<s[1]>> \o FilterTruthy(Tail(s))

\* Every sequence over S of length at most n.
SeqsUpTo(S, n) == UNION {[1..k -> S] : k \in 0..n}

(***************************************************************************)
(* getQueueMethodForReturnType: the two regular expressions                *)
(*   /^.*Observable<.+>[^\[|\]]*$/   and   /^.*Promise<.+>[^\[|\]]*$/      *)
(* matched as a backtracking matcher does, left to right.                  *)
(***************************************************************************)
\* "." matches any character but a line terminator: LF, CR, LS, PS.
LineTerminators == {"\n", "\r", LS, PS}
\* The negated class [^\[|\]] excludes these three characters.
BracketClass == {"[", "|", "]"}

ObservableOpen == <<"O", "b", "s", "e", "r", "v", "a", "b", "l", "e", "<">>
PromiseOpen == <<"P", "r", "o", "m", "i", "s", "e", "<">>

HasLiteralAt(lit, t, k) ==
    /\ k + Len(lit) - 1 <= Len(t)
    /\ \A d \in 1..Len(lit) : t[k + d - 1] = lit[d]

\* Faulty variant: the class written without "|".
MatchTailNoPipe(t, k) ==
    \A j \in k..Len(t) : t[j] \notin {"[", "]"}

\* [^\[|\]]*$ from position k.
RECURSIVE MatchTail(_, _)
MatchTail(t, k) ==
    \/ k > Len(t)
    \/ /\ k <= Len(t)
       /\ t[k] \notin BracketClass
       /\ MatchTail(t, k + 1)

\* .+> followed by the tail, from position k, n characters taken by .+ so far.
RECURSIVE MatchDotPlusClose(_, _, _)
MatchDotPlusClose(t, k, n) ==
    /\ k <= Len(t)
    /\ \/ n >= 1 /\ t[k] = ">" /\ MatchTail(t, k + 1)
       \/ t[k] \notin LineTerminators /\ MatchDotPlusClose(t, k + 1, n + 1)

\* ^.* followed by the literal, from position k.
RECURSIVE MatchDotStarLiteral(_, _, _)
MatchDotStarLiteral(lit, t, k) ==
    \/ HasLiteralAt(lit, t, k) /\ MatchDotPlusClose(t, k + Len(lit), 0)
    \/ /\ k <= Len(t)
       /\ t[k] \notin LineTerminators
       /\ MatchDotStarLiteral(lit, t, k + 1)

RegexTest(lit, t) == MatchDotStarLiteral(lit, t, 1)

getQueueMethodForReturnType(returnType) ==
    IF RegexTest(ObservableOpen, returnType) THEN Str(<<"o", "b", "s", "e", "r", "v", "e">>)
    ELSE IF RegexTest(PromiseOpen, returnType) THEN Str(<<"a", "d", "d">>)
    ELSE Undefined


(***************************************************************************)
(* The parsed input: the nodes ts.createSourceFile yields, with the fields *)
(* the code reads.                                                         *)
(*   Identifier / binding pattern: text is getText(), the source span.     *)
(*   Type node: fullText is getFullText(), the span with its leading       *)
(*   trivia (the blank after the colon).                                   *)
(* and with the other parts of a method head, which the code never reads:  *)
(* the "..." of a rest parameter, the "?" of an optional one, the          *)
(* initializer of a parameter, the type parameters of a method.            *)
(***************************************************************************)
Identifier(text) == [kind |-> "Identifier", text |-> text]
ObjectBindingPattern(text) == [kind |-> "ObjectBindingPattern", text |-> text]
TypeNode(fullText) == [kind |-> "TypeNode", fullText |-> fullText]
EndOfFileToken == [kind |-> "EndOfFileToken"]

\* The initializer of a parameter, fullText being the span after the "=".
Expression(fullText) == [kind |-> "Expression", fullText |-> fullText]
\* The type parameters of a method, text being the span from "<" to ">".
TypeParameters(text) == [kind |-> "TypeParameters", text |-> text]

ParameterDeclaration(dotDotDotToken, name, questionToken, type, initializer) ==
    [kind |-> "Parameter", dotDotDotToken |-> dotDotDotToken, name |-> name,
     questionToken |-> questionToken, type |-> type,
     initializer |-> initializer]

\* A parameter that is neither a rest parameter nor has an initializer.
Parameter(name, questionToken, type) ==
    ParameterDeclaration(FALSE, name, questionToken, type, Undefined)

ClassElement(kind, name, parameters, type) ==
    [kind |-> kind, name |-> name, typeParameters |-> Undefined,
     parameters |-> parameters, type |-> type]

GenericMethodDeclaration(name, typeParameters, parameters, type) ==
    [kind |-> "MethodDeclaration", name |-> Identifier(name),
     typeParameters |-> typeParameters, parameters |-> parameters,
     type |-> type]

MethodDeclaration(name, parameters, type) ==
    GenericMethodDeclaration(name, Undefined, parameters, type)

\* A top-level statement; statements is the body of a namespace.
Statement(kind, name, members, statements) ==
    [kind |-> kind, name |-> name, members |-> members,
     statements |-> statements]

ClassDeclaration(name, members) ==
    Statement("ClassDeclaration", name, members, <<>>)

\* Identifier.escapedText: an identifier that starts with two underscores
\* is stored with a third one in front.
escapedText(identifier) ==
    IF Len(identifier.text) >= 2 /\ identifier.text[1] = "_"
           /\ identifier.text[2] = "_"
    THEN <<"_">> \o identifier.text
    ELSE identifier.text

\* node?.getText(sourceFile) ?? ''
getTextOrEmpty(node) ==
    IF node.kind = "undefined" THEN EmptyText ELSE node.text

\* node?.getFullText(sourceFile) ?? fallback
getFullTextOr(node, fallback) ==
    IF node.kind = "undefined" THEN fallback ELSE node.fullText

\* ts.createSourceFile(fileName, sourceText, ...): the unit of a text. It
\* starts by reading the extension of fileName (fileName.lastIndexOf), a
\* TypeError when fileName is not a string.
createSourceFile(fileName, sourceText) ==
    IF fileName.kind # "string"
    THEN [status |-> "thrown", error |-> [name |-> "TypeError"]]
    ELSE [status |-> "returned",
          unit |-> [kind |-> "SourceFile", fileName |-> fileName.text,
                    sourceText |-> sourceText]]

\* The children of a unit as forEachChild visits them: the statements, and
\* then the end-of-file token.
forEachChildNodes(source) == source.sourceText.statements \o <<EndOfFileToken>>

(***************************************************************************)
(* Class Locator                                                           *)
(***************************************************************************)
isClassDeclarationWithIdentifier(node, targetClassName) ==
    IF node.kind # "ClassDeclaration" THEN FALSE
    ELSE IF node.name.kind # "Identifier" THEN FALSE
    ELSE escapedText(node.name) = targetClassName

\* The callback of forEachChild over the children from position k on:
\* result stays undefined until the first child that passes the test.
RECURSIVE FindFrom(_, _, _)
FindFrom(children, k, targetClassName) ==
    IF k > Len(children) THEN Undefined
    ELSE IF isClassDeclarationWithIdentifier(children[k], targetClassName)
    THEN children[k]
    ELSE FindFrom(children, k + 1, targetClassName)

findClassNodeByName(source, targetClassName) ==
    FindFrom(forEachChildNodes(source), 1, targetClassName)

(***************************************************************************)
(* Method Signature Extractor                                              *)
(***************************************************************************)
CommaSpace == <<",", " ">>
ColonSpace == <<":", " ">>
AnyType == <<"a", "n", "y">>

\* Faulty variant: a parameter whose name is not an identifier yields null.
parseMethodArgumentDeclarationMetadataIdentifiersOnly(parameter) ==
    IF parameter.kind # "Parameter" \/ parameter.name.kind # "Identifier"
    THEN Null
    ELSE [kind |-> "object",
          name |-> getTextOrEmpty(parameter.name),
          type |-> getFullTextOr(parameter.type, EmptyText)]

parseMethodArgumentDeclarationMetadata(parameter) ==
    IF parameter.kind # "Parameter" THEN Null
    ELSE [kind |-> "object",
          name |-> getTextOrEmpty(parameter.name),
          type |-> getFullTextOr(parameter.type, EmptyText)]

typedArgumentList(args) ==
    Join([i \in 1..Len(args) |-> args[i].name \o ColonSpace \o args[i].type],
         CommaSpace)

parseMethodDeclarationMetadata(memberNode) ==
    IF memberNode.kind # "MethodDeclaration" THEN Null
    ELSE LET name == getTextOrEmpty(memberNode.name)
             args == FilterTruthy(
                         [i \in 1..Len(memberNode.parameters) |->
                             parseMethodArgumentDeclarationMetadata(
                                 memberNode.parameters[i])])
             returnType == getFullTextOr(memberNode.type, AnyType)
         IN  [kind |-> "object",
              name |-> name,
              args |-> args,
              returnType |-> returnType,
              declarationText |->
                  name \o <<"(">> \o typedArgumentList(args) \o <<")", ":", " ">>
                       \o returnType]



\* Faulty variant: the list reversed (members visited last to first).
parseMethodDeclarationMetadataListReversed(sourceClass) ==
    LET all == FilterTruthy([i \in 1..Len(sourceClass.members) |->
                    parseMethodDeclarationMetadata(sourceClass.members[i])])
    IN  [i \in 1..Len(all) |-> all[Len(all) + 1 - i]]

parseMethodDeclarationMetadataList(sourceClass) ==
    FilterTruthy([i \in 1..Len(sourceClass.members) |->
                     parseMethodDeclarationMetadata(sourceClass.members[i])])

(***************************************************************************)
(* Guard Emitter                                                           *)
(***************************************************************************)
NewLine == <<"\n">>
Tab == <<"\t">>
sourceRefName == <<"s", "o", "u", "r", "c", "e">>

\* Faulty variant: the interface lists the names only.
generateClassInterfaceMethodsNameOnly(methods, indent) ==
    Join([i \in 1..Len(methods) |-> indent \o methods[i].name \o <<";">>],
         NewLine)

generateClassInterfaceMethods(methods, indent) ==
    Join([i \in 1..Len(methods) |->
             indent \o methods[i].declarationText \o <<";">>],
         NewLine)

sourceCallOf(method, sourceRef) ==
    <<"t", "h", "i", "s", ".">> \o sourceRef \o <<".">> \o method.name \o <<"(">>
        \o Join([i \in 1..Len(method.args) |-> method.args[i].name],
                CommaSpace)
        \o <<")">>

\* Faulty variant: the queue entry points exchanged.
generateClassGuardMethodSwapped(method, sourceRef, indent) ==
    LET qm == getQueueMethodForReturnType(method.returnType)
        sourceCall == sourceCallOf(method, sourceRef)
        returnStatement ==
            IF qm.kind = "string"
            THEN <<"t", "h", "i", "s", ".", "q", "u", "e", "u", "e", ".">>
                 \o (IF qm.text = <<"o", "b", "s", "e", "r", "v", "e">> THEN <<"a", "d", "d">> ELSE <<"o", "b", "s", "e", "r", "v", "e">>)
                 \o <<"(", "(", ")", " ", "=", ">", " ">> \o sourceCall \o <<")">>
            ELSE sourceCall
    IN  indent \o method.declarationText \o <<" ", "{", "\n">>
            \o indent \o <<"\t", "r", "e", "t", "u", "r", "n", " ">> \o returnStatement \o <<";", "\n">>
            \o indent \o <<"}">>

generateClassGuardMethod(method, sourceRef, indent) ==
    LET qm == getQueueMethodForReturnType(method.returnType)
        sourceCall == sourceCallOf(method, sourceRef)
        returnStatement ==
            IF qm.kind = "string"
            THEN <<"t", "h", "i", "s", ".", "q", "u", "e", "u", "e", ".">> \o qm.text \o <<"(", "(", ")", " ", "=", ">", " ">> \o sourceCall
                 \o <<")">>
            ELSE sourceCall
    IN  indent \o method.declarationText \o <<" ", "{", "\n">>
            \o indent \o <<"\t", "r", "e", "t", "u", "r", "n", " ">> \o returnStatement \o <<";", "\n">>
            \o indent \o <<"}">>

generateClassGuardMethodList(methods, sourceRef, indent) ==
    Join([i \in 1..Len(methods) |->
             generateClassGuardMethod(methods[i], sourceRef, indent)],
         NewLine)

\* The template of generateOutputFromClassSource around its holes:
\*   import { Observable } from 'rxjs';
\*   import { CommandQueue } from '@obsidize/command-queue';
\*
\*   export interface <Name>Like {
\*   <interface methods>
\*   }
\*
\*   export class <Name>Guard implements <Name>Like {
\*   <tab>
\*   <tab>public readonly queue: CommandQueue = new CommandQueue();
\*   <tab>
\*   <tab>constructor(
\*   <tab><tab>public readonly source: <Name>Like
\*   <tab>) {
\*   <tab>}
\*
\*   <guard methods>
\*   }
TemplateHead ==
    <<"i", "m", "p", "o", "r", "t", " ", "{", " ", "O", "b", "s",
          "e", "r", "v", "a", "b", "l", "e", " ", "}", " ", "f", "r",
          "o", "m", " ", "'", "r", "x", "j", "s", "'", ";", "\n", "i",
          "m", "p", "o", "r", "t", " ", "{", " ", "C", "o", "m", "m",
          "a", "n", "d", "Q", "u", "e", "u", "e", " ", "}", " ", "f",
          "r", "o", "m", " ", "'", "@", "o", "b", "s", "i", "d", "i",
          "z", "e", "/", "c", "o", "m", "m", "a", "n", "d", "-", "q",
          "u", "e", "u", "e", "'", ";", "\n", "\n", "e", "x", "p", "o",
          "r", "t", " ", "i", "n", "t", "e", "r", "f", "a", "c", "e",
          " ">>
TemplateClassFields ==
    <<" ", "{", "\n", "\t", "\n", "\t", "p", "u", "b", "l", "i", "c",
          " ", "r", "e", "a", "d", "o", "n", "l", "y", " ", "q", "u",
          "e", "u", "e", ":", " ", "C", "o", "m", "m", "a", "n", "d",
          "Q", "u", "e", "u", "e", " ", "=", " ", "n", "e", "w", " ",
          "C", "o", "m", "m", "a", "n", "d", "Q", "u", "e", "u", "e",
          "(", ")", ";", "\n", "\t", "\n", "\t", "c", "o", "n", "s", "t",
          "r", "u", "c", "t", "o", "r", "(", "\n", "\t", "\t", "p", "u",
          "b", "l", "i", "c", " ", "r", "e", "a", "d", "o", "n", "l",
          "y", " ">>
TemplateConstructorEnd == <<"\n", "\t", ")", " ", "{", "\n", "\t", "}", "\n", "\n">>

sourceFileTextOf(className, interfaceMethods, guardMethods) ==
    LET classLikeInterfaceName == className \o <<"L", "i", "k", "e">>
        classGuardName == className \o <<"G", "u", "a", "r", "d">>
    IN  TemplateHead \o classLikeInterfaceName \o <<" ", "{", "\n">>
            \o interfaceMethods \o <<"\n", "}", "\n", "\n", "e", "x", "p", "o", "r", "t", " ", "c",
          "l", "a", "s", "s", " ">>
            \o classGuardName \o <<" ", "i", "m", "p", "l", "e", "m", "e", "n", "t", "s", " ">> \o classLikeInterfaceName
            \o TemplateClassFields \o sourceRefName \o ColonSpace
            \o classLikeInterfaceName \o TemplateConstructorEnd
            \o guardMethods \o <<"\n", "}", "\n">>

\* What generateOutputFromClassSource computes, step by step.
emission(sourceClass) ==
    LET methodDeclarations == parseMethodDeclarationMetadataList(sourceClass)
        interfaceMethods == generateClassInterfaceMethods(methodDeclarations, Tab)
        guardMethods == generateClassGuardMethodList(methodDeclarations,
                                                     sourceRefName, Tab)
    IN  [classNode |-> sourceClass,
         methodDeclarations |-> methodDeclarations,
         interfaceMethods |-> interfaceMethods,
         guardMethods |-> guardMethods,
         sourceFileText |-> sourceFileTextOf(escapedText(sourceClass.name),
                                             interfaceMethods, guardMethods)]

\* Faulty variant: the emitted text starts with a comment line that names
\* the output file.
generateOutputFromClassSourceWithHeader(outFileName, sourceClass) ==
    createSourceFile(outFileName,
                     <<"/", "/", " ">> \o TemplateText(outFileName) \o <<"\n">>
                         \o emission(sourceClass).sourceFileText)

\* generateOutputFromClassSource: the unit ts.createSourceFile makes of the
\* template's text under the name outFileName, or the error it throws.
generateOutputFromClassSource(outFileName, sourceClass) ==
    createSourceFile(outFileName, emission(sourceClass).sourceFileText)

(***************************************************************************)
(* Pipeline Orchestrator                                                   *)
(***************************************************************************)
\* Object.assign({ inputFileName: '', outputFileName: '' }, options): a key
\* the options have replaces the default whatever its value, undefined too;
\* the default stays for a key the options do not have.
withDefaults(opts) ==
    [inputFileText |-> opts.inputFileText,
     inputFileTargetClass |-> opts.inputFileTargetClass,
     inputFileName |-> IF opts.inputFileName.kind = "absent"
                       THEN Str(EmptyText) ELSE opts.inputFileName,
     outputFileName |-> IF opts.outputFileName.kind = "absent"
                        THEN Str(EmptyText) ELSE opts.outputFileName]

\* assert(condition, errorMessage) when the condition is false:
\* new Error('[GuardGenerator] ' + errorMessage)
assertionError(errorMessage) ==
    [name |-> "Error", message |-> <<"[", "G", "u", "a", "r", "d", "G", "e", "n", "e", "r", "a",
          "t", "o", "r", "]", " ">> \o errorMessage]

\* Definition for input "<inputFileName>" does not contain a cordova plugin
\* class declaration
notFoundMessage(inputFileName) ==
    <<"D", "e", "f", "i", "n", "i", "t", "i", "o", "n", " ", "f",
          "o", "r", " ", "i", "n", "p", "u", "t", " ", "\"">> \o TemplateText(inputFileName)
        \o <<"\"", " ", "d", "o", "e", "s", " ", "n", "o", "t", " ", "c",
          "o", "n", "t", "a", "i", "n", " ", "a", " ", "c", "o", "r",
          "d", "o", "v", "a", " ", "p", "l", "u", "g", "i", "n", " ",
          "c", "l", "a", "s", "s", " ", "d", "e", "c", "l", "a", "r",
          "a", "t", "i", "o", "n">>

\* generateAst: the unit it returns, or the error it throws (of the parse
\* of the input, of the assertion, or of the parse of the output).
generateAst(opts) ==
    LET o == withDefaults(opts)
        inputRootNode == createSourceFile(o.inputFileName, o.inputFileText)
    IN  IF inputRootNode.status = "thrown" THEN inputRootNode
        ELSE LET classNode == findClassNodeByName(inputRootNode.unit,
                                                  o.inputFileTargetClass)
             IN  IF classNode.kind = "undefined"
                 THEN [status |-> "thrown",
                       error |-> assertionError(
                                     notFoundMessage(o.inputFileName))]
                 ELSE generateOutputFromClassSource(o.outputFileName,
                                                    classNode)

\* The intermediate values of a generateAst call: whether the locator ran
\* and what it returned and, when the call returned a unit, what the emitter
\* computed.
productsOf(opts) ==
    LET o == withDefaults(opts)
        inputRootNode == createSourceFile(o.inputFileName, o.inputFileText)
        located == inputRootNode.status = "returned"
        classNode == IF located
                     THEN findClassNodeByName(inputRootNode.unit,
                                              o.inputFileTargetClass)
                     ELSE Undefined
    IN  IF generateAst(opts).status = "returned"
        THEN [located |-> TRUE, classNode |-> classNode, emitted |-> TRUE,
              emission |-> emission(classNode)]
        ELSE [located |-> located, classNode |-> classNode,
              emitted |-> FALSE]

\* printer.printFile(node): the TypeScript printer's text for a unit, a
\* function of the unit, which is its text and its file name (a fresh
\* printer per call).
printFile(node) ==
    [kind |-> "printed", of |-> node.sourceText, fileName |-> node.fileName]

\* generate: the printed text of generateAst's unit, or generateAst's error.
generate(opts) ==
    LET ast == generateAst(opts)
    IN  IF ast.status = "thrown" THEN ast
        ELSE [status |-> "returned", text |-> printFile(ast.unit)]

(***************************************************************************)
(* Inputs of the model.                                                    *)
(***************************************************************************)
\* Parameters as they may be declared:  x: number,  y,  {a, b}: Opts,
\* z?: string,  ...xs: number[],  n: number = 1
ParameterPool ==
    { Parameter(Identifier(<<"x">>), FALSE, TypeNode(<<" ", "n", "u", "m", "b", "e", "r">>)),
      Parameter(Identifier(<<"y">>), FALSE, Undefined),
      Parameter(ObjectBindingPattern(<<"{", "a", ",", " ", "b", "}">>), FALSE, TypeNode(<<" ", "O", "p", "t", "s">>)),
      Parameter(Identifier(<<"z">>), TRUE, TypeNode(<<" ", "s", "t", "r", "i", "n", "g">>)),
      ParameterDeclaration(TRUE, Identifier(<<"x", "s">>), FALSE,
          TypeNode(<<" ", "n", "u", "m", "b", "e", "r", "[", "]">>), Undefined),
      ParameterDeclaration(FALSE, Identifier(<<"n">>), FALSE,
          TypeNode(<<" ", "n", "u", "m", "b", "e", "r">>), Expression(<<" ", "1">>)) }

\* Type parameters of the method whose signature is varied: none, <T>
TypeParametersPool == { Undefined, TypeParameters(<<"<", "T", ">">>) }

\* Return annotations: none, void, Observable<string>, Promise<void>,
\* Observable<number>[]
ReturnTypePool ==
    { Undefined,
      TypeNode(<<" ", "v", "o", "i", "d">>),
      TypeNode(<<" ", "O", "b", "s", "e", "r", "v", "a", "b", "l", "e", "<",
          "s", "t", "r", "i", "n", "g", ">">>),
      TypeNode(<<" ", "P", "r", "o", "m", "i", "s", "e", "<", "v", "o", "i",
          "d", ">">>),
      TypeNode(<<" ", "O", "b", "s", "e", "r", "v", "a", "b", "l", "e", "<",
          "n", "u", "m", "b", "e", "r", ">", "[", "]">>) }

\* Members for the classes whose member order is varied:
\*   bar(x: number): Promise<string>    baz(): Observable<number>
\*   qux(): void                        run(y)
\*   count: number                      constructor(x: number)
\*   get value(): string                set value(x: number)
\*   pick<T>(...xs: T[]): T
MemberPool ==
    { MethodDeclaration(<<"b", "a", "r">>,
          <<Parameter(Identifier(<<"x">>), FALSE, TypeNode(<<" ", "n", "u", "m", "b", "e", "r">>))>>,
          TypeNode(<<" ", "P", "r", "o", "m", "i", "s", "e", "<", "s", "t", "r",
          "i", "n", "g", ">">>)),
      MethodDeclaration(<<"b", "a", "z">>, <<>>, TypeNode(<<" ", "O", "b", "s", "e", "r", "v", "a", "b", "l", "e", "<",
          "n", "u", "m", "b", "e", "r", ">">>)),
      MethodDeclaration(<<"q", "u", "x">>, <<>>, TypeNode(<<" ", "v", "o", "i", "d">>)),
      GenericMethodDeclaration(<<"p", "i", "c", "k">>, TypeParameters(<<"<", "T", ">">>),
          <<ParameterDeclaration(TRUE, Identifier(<<"x", "s">>), FALSE,
                TypeNode(<<" ", "T", "[", "]">>), Undefined)>>,
          TypeNode(<<" ", "T">>)),
      MethodDeclaration(<<"r", "u", "n">>,
          <<Parameter(Identifier(<<"y">>), FALSE, Undefined)>>, Undefined),
      ClassElement("PropertyDeclaration", Identifier(<<"c", "o", "u", "n", "t">>), <<>>,
          TypeNode(<<" ", "n", "u", "m", "b", "e", "r">>)),
      ClassElement("Constructor", Undefined,
          <<Parameter(Identifier(<<"x">>), FALSE, TypeNode(<<" ", "n", "u", "m", "b", "e", "r">>))>>,
          Undefined),
      ClassElement("GetAccessor", Identifier(<<"v", "a", "l", "u", "e">>), <<>>,
          TypeNode(<<" ", "s", "t", "r", "i", "n", "g">>)),
      ClassElement("SetAccessor", Identifier(<<"v", "a", "l", "u", "e">>),
          <<Parameter(Identifier(<<"x">>), FALSE, TypeNode(<<" ", "n", "u", "m", "b", "e", "r">>))>>,
          Undefined) }

Foo == <<"F", "o", "o">>
Bar == <<"B", "a", "r">>

BarMethod == MethodDeclaration(<<"b", "a", "r">>,
    <<Parameter(Identifier(<<"x">>), FALSE, TypeNode(<<" ", "n", "u", "m", "b", "e", "r">>))>>,
    TypeNode(<<" ", "P", "r", "o", "m", "i", "s", "e", "<", "s", "t", "r",
          "i", "n", "g", ">">>))
QuxMethod == MethodDeclaration(<<"q", "u", "x">>, <<>>, TypeNode(<<" ", "v", "o", "i", "d">>))

\* Top-level statements:
\*   class Foo { bar(x: number): Promise<string> }   class Foo { qux(): void }
\*   class Bar { qux(): void }                       class foo { }
\*   class __Foo { qux(): void }                     export default class { }
\*   function Foo() { }                   namespace NS { class Foo { ... } }
StatementPool ==
    { ClassDeclaration(Identifier(Foo), <<BarMethod>>),
      ClassDeclaration(Identifier(Foo), <<QuxMethod>>),
      ClassDeclaration(Identifier(Bar), <<QuxMethod>>),
      ClassDeclaration(Identifier(<<"f", "o", "o">>), <<>>),
      ClassDeclaration(Identifier(<<"_", "_", "F", "o", "o">>), <<QuxMethod>>),
      ClassDeclaration(Undefined, <<QuxMethod>>),
      Statement("FunctionDeclaration", Identifier(Foo), <<>>, <<>>),
      Statement("ModuleDeclaration", Identifier(<<"N", "S">>), <<>>,
          <<ClassDeclaration(Identifier(Foo), <<BarMethod>>)>>) }

TargetPool == { Foo, Bar, <<"f", "o", "o">>, <<"_", "_", "F", "o", "o">>, <<"_", "_", "_", "F", "o", "o">> }

\* The two optional keys of the options: left out, given as undefined, or
\* given as strings (names of TypeScript files).
FileNamePool ==
    { [inputFileName |-> Absent, outputFileName |-> Absent],
      [inputFileName |-> Undefined, outputFileName |-> Undefined],
      [inputFileName |-> Str(<<"a", ".", "t", "s">>), outputFileName |-> Absent],
      [inputFileName |-> Str(<<"a", ".", "t", "s">>), outputFileName |-> Undefined],
      [inputFileName |-> Str(<<"a", ".", "t", "s">>), outputFileName |-> Str(<<"g", ".", "t", "s">>)] }
NoFileNames == [inputFileName |-> Absent, outputFileName |-> Absent]

Options(parsed, target, fileNames) ==
    [inputFileText |-> parsed, inputFileTargetClass |-> target,
     inputFileName |-> fileNames.inputFileName,
     outputFileName |-> fileNames.outputFileName]

\* Inputs that vary the top-level statements and the target.
LocatorOptions ==
    { Options([statements |-> s], t, f) :
        s \in SeqsUpTo(StatementPool, MaxStatements),
        t \in TargetPool, f \in FileNamePool }

\* Inputs that vary the members of the target class.
MemberOptions ==
    { Options([statements |-> <<ClassDeclaration(Identifier(Foo), ms)>>],
              Foo, NoFileNames) :
        ms \in SeqsUpTo(MemberPool, MaxMembers) }

\* Inputs that vary the signature of the one method of the target class.
SignatureOptions ==
    { Options([statements |->
                  <<ClassDeclaration(Identifier(Foo),
                        <<GenericMethodDeclaration(<<"a", "c", "t">>, tp, ps, r)>>)>>],
              Foo, NoFileNames) :
        tp \in TypeParametersPool,
        ps \in SeqsUpTo(ParameterPool, MaxParams), r \in ReturnTypePool }

AllOptions == LocatorOptions \cup MemberOptions \cup SignatureOptions

\* Inputs of the repeated invocations: two texts, two targets, and file
\* names left out, given as strings, or given as undefined.
RepeatFileNames ==
    { NoFileNames,
      [inputFileName |-> Str(<<"a", ".", "t", "s">>), outputFileName |-> Absent],
      [inputFileName |-> Str(<<"b", ".", "t", "s">>), outputFileName |-> Str(<<"g", ".", "t", "s">>)],
      [inputFileName |-> Undefined, outputFileName |-> Undefined] }
RepeatOptions ==
    { Options([statements |-> s], t, f) :
        s \in { <<ClassDeclaration(Identifier(Foo), <<BarMethod>>)>>,
                <<ClassDeclaration(Identifier(Bar), <<QuxMethod>>)>> },
        t \in { Foo, Bar }, f \in RepeatFileNames }

\* Return-type texts: the spec's examples, and every text of at most
\* MaxPieces pieces.
Pieces ==
    { ObservableOpen, PromiseOpen, <<"x">>, <<">">>, <<"[">>, <<"]">>,
      <<"|">>, <<" ">>, <<"\n">>, <<LS>> }

RECURSIVE Flatten(_)
Flatten(parts) ==
    IF Len(parts) = 0 THEN EmptyText ELSE parts[1] \o Flatten(Tail(parts))

ExampleObservableString == <<"O", "b", "s", "e", "r", "v", "a", "b", "l", "e", "<", "s",
          "t", "r", "i", "n", "g", ">">>
ExamplePromiseVoid == <<"P", "r", "o", "m", "i", "s", "e", "<", "v", "o", "i", "d",
          ">">>
ExampleObservableArray == <<"O", "b", "s", "e", "r", "v", "a", "b", "l", "e", "<", "n",
          "u", "m", "b", "e", "r", ">", "[", "]">>
ExampleVoid == <<"v", "o", "i", "d">>

ExampleTypeTexts ==
    { ExampleObservableString, ExamplePromiseVoid, ExampleObservableArray,
      ExampleVoid, AnyType, <<"O", "b", "s", "e", "r", "v", "a", "b", "l", "e", "<", "n",
          "u", "m", "b", "e", "r", ">", " ", "|", " ", "n", "u", "l",
          "l">>,
      <<"P", "r", "o", "m", "i", "s", "e", "<", "O", "b", "s", "e",
          "r", "v", "a", "b", "l", "e", "<", "n", "u", "m", "b", "e",
          "r", ">", ">">>,
      <<"O", "b", "s", "e", "r", "v", "a", "b", "l", "e", "<">> \o <<PS>> \o <<">">>, <<PS>> \o <<"P", "r", "o", "m", "i", "s", "e", "<", "x", ">">> }

TypeTexts ==
    ExampleTypeTexts \cup { Flatten(p) : p \in SeqsUpTo(Pieces, MaxPieces) }

(***************************************************************************)
(* The batch driver (scripts/stress-test.js).                              *)
(* A plugin directory is its name and its index.ts: undefined when the     *)
(* file is missing or unreadable, else its text, the tree the parser makes *)
(* of that text, and whether guard.ts can be written beside it.            *)
(***************************************************************************)
PluginDirectory(name, index) == [name |-> name, index |-> index]
IndexFile(text, parsed, writable) ==
    [kind |-> "file", text |-> text, parsed |-> parsed, writable |-> writable]

\* dirName.replace(/-/g, ''): the name without its hyphens.
RECURSIVE withoutHyphens(_)
withoutHyphens(name) ==
    IF Len(name) = 0 THEN EmptyText
    ELSE (IF name[1] = "-" THEN EmptyText ELSE <<name[1]>>)
             \o withoutHyphens(Tail(name))

\* The source of targetClassRegex.
targetClassRegexSource(dirName) ==
    <<"e", "x", "p", "o", "r", "t", " ", "c", "l", "a", "s", "s",
          " ", "(">> \o withoutHyphens(dirName) \o <<")", " ", "e", "x", "t", "e", "n", "d", "s">>

(***************************************************************************)
(* new RegExp(source, 'gmi') and exec, for sources over letters, digits,   *)
(* blanks, "_" and the syntax characters "(", ")", "." and "+" (a source   *)
(* with another syntax character, ^ $ \ * ? [ ] { } |, is outside the      *)
(* model). A term is an atom (a character, ".", or a capturing group of    *)
(* terms), alone or repeated by "+".                                       *)
(***************************************************************************)
Quantifiers == {"+"}

CharAtom(c) == [kind |-> "char", char |-> c]
DotAtom == [kind |-> "dot"]
GroupAtom(first, terms) == [kind |-> "group", first |-> first, terms |-> terms]
Term(atom, quantifier) == [atom |-> atom, quantifier |-> quantifier]

\* Whether the "(" at src[i] opens capture group 1: no "(" stands before it.
OpensFirstGroup(src, i) == \A k \in 1..(i - 1) : src[k] # "("

\* The terms from src[i] up to the end of src or to a ")" (left unread at
\* next), or the SyntaxError of the constructor:
\*   a quantifier with no atom before it    Nothing to repeat
\*   a "(" with no ")" closing it           Unterminated group
RECURSIVE parseTerms(_, _)
parseTerms(src, i) ==
    IF i > Len(src) \/ src[i] = ")"
    THEN [error |-> FALSE, terms |-> <<>>, next |-> i]
    ELSE IF src[i] \in Quantifiers
    THEN [error |-> TRUE, terms |-> <<>>, next |-> i]
    ELSE LET inner == IF src[i] = "(" THEN parseTerms(src, i + 1)
                      ELSE [error |-> FALSE, terms |-> <<>>, next |-> i]
             unterminated == src[i] = "(" /\ inner.next > Len(src)
             atom == IF src[i] = "(" THEN GroupAtom(OpensFirstGroup(src, i),
                                                    inner.terms)
                     ELSE IF src[i] = "." THEN DotAtom
                     ELSE CharAtom(src[i])
             afterAtom == inner.next + 1
             quantified == afterAtom <= Len(src)
                              /\ src[afterAtom] \in Quantifiers
             term == Term(atom, IF quantified THEN src[afterAtom] ELSE "")
         IN  IF inner.error \/ unterminated
             THEN [error |-> TRUE, terms |-> <<>>, next |-> i]
             ELSE LET rest == parseTerms(src, IF quantified THEN afterAtom + 1
                                              ELSE afterAtom)
                  IN  [error |-> rest.error,
                       terms |-> <<term>> \o rest.terms,
                       next |-> rest.next]

\* new RegExp(src, 'gmi'): the compiled terms, or the SyntaxError thrown (a
\* ")" that closes nothing is one as well).
newRegExp(src) ==
    LET p == parseTerms(src, 1)
    IN  IF p.error \/ p.next <= Len(src)
        THEN [status |-> "thrown", error |-> [name |-> "SyntaxError"]]
        ELSE [status |-> "returned", terms |-> p.terms]

LowerCaseLetters == <<"a", "b", "c", "d", "e", "f", "g", "h", "i", "j", "k", "l",
          "m", "n", "o", "p", "q", "r", "s", "t", "u", "v", "w", "x",
          "y", "z">>
UpperCaseLetters == <<"A", "B", "C", "D", "E", "F", "G", "H", "I", "J", "K", "L",
          "M", "N", "O", "P", "Q", "R", "S", "T", "U", "V", "W", "X",
          "Y", "Z">>

\* Flag i: two characters match when they are the same after toUpperCase.
Canonicalize(c) ==
    IF \E k \in 1..26 : LowerCaseLetters[k] = c
    THEN UpperCaseLetters[CHOOSE k \in 1..26 : LowerCaseLetters[k] = c]
    ELSE c

\* A matcher state: the position of the next character to read, and the
\* span of capture group 1 (undefined while the group has not matched).
MatchState(pos, capture) == [pos |-> pos, capture |-> capture]
Span(from, to) == [kind |-> "span", from |-> from, to |-> to]

\* The states a backtracking matcher goes through after the terms from the
\* k-th on, started in each of the given states, in the order it tries them.
RECURSIVE matchTerms(_, _, _, _)
RECURSIVE matchTerm(_, _, _)
RECURSIVE matchAtom(_, _, _)
RECURSIVE matchRepeat(_, _, _, _)
RECURSIVE matchRepeatEach(_, _, _, _, _)
RECURSIVE matchTermEach(_, _, _)

matchTerms(terms, k, text, states) ==
    IF k > Len(terms) THEN states
    ELSE matchTerms(terms, k + 1, text, matchTermEach(terms[k], text, states))

matchTermEach(term, text, states) ==
    IF Len(states) = 0 THEN <<>>
    ELSE matchTerm(term, text, states[1])
             \o matchTermEach(term, text, Tail(states))

matchTerm(term, text, state) ==
    IF term.quantifier = "+" THEN matchRepeat(term.atom, text, state, 1)
    ELSE matchAtom(term.atom, text, state)

\* One atom from one state. A group sets the capture to what it spans.
matchAtom(atom, text, state) ==
    IF atom.kind = "group"
    THEN LET ends == matchTerms(atom.terms, 1, text, <<state>>)
         IN  [e \in 1..Len(ends) |->
                 IF atom.first
                 THEN MatchState(ends[e].pos,
                                 Span(state.pos, ends[e].pos))
                 ELSE ends[e]]
    ELSE IF state.pos > Len(text) THEN <<>>
    ELSE IF atom.kind = "dot"
    THEN IF text[state.pos] \in LineTerminators THEN <<>>
         ELSE <<MatchState(state.pos + 1, state.capture)>>
    ELSE IF Canonicalize(text[state.pos]) = Canonicalize(atom.char)
    THEN <<MatchState(state.pos + 1, state.capture)>>
    ELSE <<>>

\* A greedy repetition with at least min iterations still to make: one more
\* iteration first (the captures of the atom cleared, and an iteration that
\* reads nothing refused once min is reached), and then none.
matchRepeat(atom, text, state, min) ==
    LET cleared == IF atom.kind = "group" /\ atom.first
                   THEN MatchState(state.pos, Undefined) ELSE state
        more == matchRepeatEach(atom, text, state.pos,
                                matchAtom(atom, text, cleared), min)
    IN  IF min > 0 THEN more ELSE more \o <<state>>

matchRepeatEach(atom, text, from, states, min) ==
    IF Len(states) = 0 THEN <<>>
    ELSE (IF min = 0 /\ states[1].pos = from THEN <<>>
          ELSE matchRepeat(atom, text, states[1], 0))
             \o matchRepeatEach(atom, text, from, Tail(states), min)

\* The first match that starts at or after position start: null when there
\* is none, else the value of capture group 1.
RECURSIVE execFrom(_, _, _)
execFrom(terms, text, start) ==
    IF start > Len(text) + 1 THEN Null
    ELSE LET found == matchTerms(terms, 1, text,
                                 <<MatchState(start, Undefined)>>)
         IN  IF Len(found) = 0 THEN execFrom(terms, text, start + 1)
             ELSE IF found[1].capture.kind = "undefined"
             THEN [kind |-> "match", group1 |-> Undefined]
             ELSE [kind |-> "match",
                   group1 |-> Str(SubSeq(text, found[1].capture.from,
                                         found[1].capture.to - 1))]

\* targetClassRegex.exec(inputFileText), lastIndex being 0.
exec(terms, text) == execFrom(terms, text, 1)

(***************************************************************************)
(* Plugin directories of the model.                                        *)
(***************************************************************************)
FooIndexText ==
    <<"e", "x", "p", "o", "r", "t", " ", "c", "l", "a", "s", "s",
          " ", "F", "o", "o", " ", "e", "x", "t", "e", "n", "d", "s",
          " ", "B", "a", "s", "e", " ", "{", " ", "b", "a", "r", "(",
          "x", ":", " ", "n", "u", "m", "b", "e", "r", ")", ":", " ",
          "P", "r", "o", "m", "i", "s", "e", "<", "s", "t", "r", "i",
          "n", "g", ">", " ", "{", " ", "}", " ", "}">>
BarIndexText == <<"e", "x", "p", "o", "r", "t", " ", "c", "l", "a", "s", "s",
          " ", "O", "t", "h", "e", "r", " ", "e", "x", "t", "e", "n",
          "d", "s", " ", "B", "a", "s", "e", " ", "{", " ", "}">>
QuxIndexText == <<"n", "a", "m", "e", "s", "p", "a", "c", "e", " ", "N", "S",
          " ", "{", " ", "e", "x", "p", "o", "r", "t", " ", "c", "l",
          "a", "s", "s", " ", "Q", "u", "x", " ", "e", "x", "t", "e",
          "n", "d", "s", " ", "B", "a", "s", "e", " ", "{", " ", "}",
          " ", "}">>
RoIndexText ==
    <<"e", "x", "p", "o", "r", "t", " ", "c", "l", "a", "s", "s",
          " ", "R", "o", " ", "e", "x", "t", "e", "n", "d", "s", " ",
          "B", "a", "s", "e", " ", "{", " ", "b", "a", "r", "(", "x",
          ":", " ", "n", "u", "m", "b", "e", "r", ")", ":", " ", "P",
          "r", "o", "m", "i", "s", "e", "<", "s", "t", "r", "i", "n",
          "g", ">", " ", "{", " ", "}", " ", "}">>
MyPluginIndexText == <<"e", "x", "p", "o", "r", "t", " ", "c", "l", "a", "s", "s",
          " ", "M", "y", "P", "l", "u", "g", "i", "n", " ", "e", "x",
          "t", "e", "n", "d", "s", " ", "B", "a", "s", "e", " ", "{",
          " ", "q", "u", "x", "(", ")", ":", " ", "v", "o", "i", "d",
          " ", "{", " ", "}", " ", "}">>

\*   foo/index.ts        export class Foo extends Base { bar(...) ... }
\*   bar/index.ts        export class Other extends Base { }
\*   baz/                no index.ts
\*   qux/index.ts        namespace NS { export class Qux extends Base { } }
\*   ro/index.ts         export class Ro ..., guard.ts not writable
\*   my-plugin/index.ts  export class MyPlugin extends Base { qux() ... }
\*   c++/index.ts        as foo
DirectoryPool ==
    { PluginDirectory(<<"f", "o", "o">>,
          IndexFile(FooIndexText,
                    [statements |->
                        <<ClassDeclaration(Identifier(Foo), <<BarMethod>>)>>],
                    TRUE)),
      PluginDirectory(<<"b", "a", "r">>,
          IndexFile(BarIndexText,
                    [statements |->
                        <<ClassDeclaration(Identifier(<<"O", "t", "h", "e", "r">>), <<>>)>>],
                    TRUE)),
      PluginDirectory(<<"b", "a", "z">>, Undefined),
      PluginDirectory(<<"q", "u", "x">>,
          IndexFile(QuxIndexText,
                    [statements |->
                        <<Statement("ModuleDeclaration", Identifier(<<"N", "S">>),
                              <<>>,
                              <<ClassDeclaration(Identifier(<<"Q", "u", "x">>), <<>>)>>)>>],
                    TRUE)),
      PluginDirectory(<<"r", "o">>,
          IndexFile(RoIndexText,
                    [statements |->
                        <<ClassDeclaration(Identifier(<<"R", "o">>), <<BarMethod>>)>>],
                    FALSE)),
      PluginDirectory(<<"m", "y", "-", "p", "l", "u", "g", "i", "n">>,
          IndexFile(MyPluginIndexText,
                    [statements |->
                        <<ClassDeclaration(Identifier(<<"M", "y", "P", "l", "u", "g", "i", "n">>),
                                           <<QuxMethod>>)>>],
                    TRUE)),
      PluginDirectory(<<"c", "+", "+">>,
          IndexFile(FooIndexText,
                    [statements |->
                        <<ClassDeclaration(Identifier(Foo), <<BarMethod>>)>>],
                    TRUE)) }

\* The try block of generatePluginGuard: the error it catches, or the text
\* it writes. Reading [1] of the null that exec returns is a TypeError.
tryBlock(file, targetClassRegex) ==
    LET found == exec(targetClassRegex.terms, file.text)
    IN  IF found.kind = "null"
        THEN [status |-> "thrown", error |-> [name |-> "TypeError"]]
        ELSE LET outputFileText ==
                     generate(Options(file.parsed, found.group1.text,
                                      NoFileNames))
             IN  IF outputFileText.status = "thrown" THEN outputFileText
                 ELSE IF ~file.writable
                 THEN [status |-> "thrown", error |-> [name |-> "SystemError"]]
                 ELSE outputFileText

\* What generatePluginGuard(dirName) comes to: an exception out of the
\* lines before the try block (readFileSync, then new RegExp), which
\* nothing catches, or else what the try block comes to.
guardOutcome(dir) ==
    LET targetClassRegex == newRegExp(targetClassRegexSource(dir.name))
    IN  IF dir.index.kind = "undefined"
        THEN [status |-> "uncaught", error |-> [name |-> "SystemError"]]
        ELSE IF targetClassRegex.status = "thrown"
        THEN [status |-> "uncaught", error |-> targetClassRegex.error]
        ELSE tryBlock(dir.index, targetClassRegex)

\* performStressTest up to the forEach: the clone, then the directory names.
PerformStressTest(dirs) ==
    /\ phase = "start"
    /\ pluginDirectories' = dirs
    /\ cursor' = 1
    /\ phase' = IF Len(dirs) = 0 THEN "finished" ELSE "running"
    /\ UNCHANGED <<runCount, failures, written, uncaught, genVars, clsVars>>

\* generatePluginGuard(dirName) for the directory forEach is at. The read of
\* index.ts and the construction of targetClassRegex come before the try
\* block: when one of them throws, the exception leaves forEach and
\* performStressTest, and the script ends.
GeneratePluginGuard ==
    /\ phase = "running"
    /\ cursor <= Len(pluginDirectories)
    /\ LET dir == pluginDirectories[cursor]
           last == cursor = Len(pluginDirectories)
           res == guardOutcome(dir)
       IN  /\ runCount' = runCount + 1
           /\ IF res.status = "uncaught"
              THEN /\ phase' = "crashed"
                   /\ uncaught' = res.error
                   /\ UNCHANGED <<cursor, failures, written>>
              ELSE /\ cursor' = cursor + 1
                   /\ phase' = IF last THEN "finished" ELSE "running"
                   /\ UNCHANGED uncaught
                   /\ IF res.status = "thrown"
                      THEN /\ failures' = Append(failures,
                                  [plugin |-> dir.name, error |-> res.error])
                           /\ UNCHANGED written
                      ELSE /\ written' = Append(written,
                                  [plugin |-> dir.name, text |-> res.text])
                           /\ UNCHANGED failures
    /\ UNCHANGED <<pluginDirectories, genVars, clsVars>>

(***************************************************************************)
(* The generator as a state machine: one action per call.                  *)
(***************************************************************************)
NotCalled == [status |-> "none"]

InitGenerator ==
    /\ options = Undefined
    /\ outcome = NotCalled
    /\ products = [located |-> FALSE, classNode |-> Undefined,
                   emitted |-> FALSE]
    /\ history = <<>>

InitClassifier ==
    /\ returnTypeText = EmptyText
    /\ queueMethod = NotCalled

InitDriver ==
    /\ pluginDirectories = <<>>
    /\ cursor = 0
    /\ runCount = 0
    /\ failures = <<>>
    /\ written = <<>>
    /\ phase = "start"
    /\ uncaught = Undefined

Init == InitGenerator /\ InitClassifier /\ InitDriver

\* One call of generate(opts).
GenerateCall(opts) ==
    /\ options' = opts
    /\ outcome' = generate(opts)
    /\ products' = productsOf(opts)
    /\ history' = Append(history, [options |-> opts, outcome |-> generate(opts)])
    /\ UNCHANGED <<clsVars, drvVars>>

\* One call of getQueueMethodForReturnType(t).
Classify(t) ==
    /\ returnTypeText' = t
    /\ queueMethod' = getQueueMethodForReturnType(t)
    /\ UNCHANGED <<genVars, drvVars>>

\* A single call of generate on any input.
Next == Len(history) < 1 /\ \E opts \in AllOptions : GenerateCall(opts)
Spec == Init /\ [][Next]_vars

\* Up to MaxCalls calls of generate, one after the other.
RepeatNext ==
    Len(history) < MaxCalls /\ \E opts \in RepeatOptions : GenerateCall(opts)
RepeatSpec == Init /\ [][RepeatNext]_vars

\* A single call of the classifier on any text.
ClassifierNext ==
    queueMethod = NotCalled /\ \E t \in TypeTexts : Classify(t)
ClassifierSpec == Init /\ [][ClassifierNext]_vars

\* The stress test over any list of at most MaxDirs directories.
DriverNext ==
    \/ \E dirs \in SeqsUpTo(DirectoryPool, MaxDirs) : PerformStressTest(dirs)
    \/ GeneratePluginGuard
DriverSpec == Init /\ [][DriverNext]_vars

(***************************************************************************)
(* Helpers of the properties.                                              *)
(***************************************************************************)
Called == outcome.status # "none"
Emission == products.emission
Called1 == Called /\ products.emitted
\* The call got as far as the locator (the input was parsed).
Located == Called /\ products.located

\* sub occurs in text.
Contains(text, sub) ==
    \E k \in 1..(Len(text) + 1) : HasLiteralAt(sub, text, k)

Blanks == {" ", "\t", "\n", "\r"}
StripBlanks(text) == SelectSeq(text, LAMBDA c : c \notin Blanks)
HasNonBlank(text) == \E k \in 1..Len(text) : text[k] \notin Blanks

RECURSIVE SplitLines(_)
SplitLines(text) ==
    IF \A k \in 1..Len(text) : text[k] # "\n" THEN <<text>>
    ELSE LET i == CHOOSE k \in 1..Len(text) :
                      text[k] = "\n" /\ \A j \in 1..(k - 1) : text[j] # "\n"
         IN  <<SubSeq(text, 1, i - 1)>>
                 \o SplitLines(SubSeq(text, i + 1, Len(text)))

\* The members of the located class that are method declarations, in order.
TargetMembers == products.classNode.members
MethodMembers ==
    SelectSeq(TargetMembers, LAMBDA m : m.kind = "MethodDeclaration")

\* The method heads found in the emitted interface and in the emitted class:
\* an interface line is <tab>head; and a class method is the three lines
\* <tab>head {, <tab><tab>return ...;, <tab>}.
InterfaceLines == SplitLines(Emission.interfaceMethods)
GuardLines == SplitLines(Emission.guardMethods)
InterfaceHead(k) == SubSeq(InterfaceLines[k], 2, Len(InterfaceLines[k]) - 1)
GuardHead(k) ==
    SubSeq(GuardLines[3 * k - 2], 2, Len(GuardLines[3 * k - 2]) - 2)
GuardBody(k) == GuardLines[3 * k - 1]
EmittedShape ==
    /\ Len(MethodMembers) > 0 => Len(InterfaceLines) = Len(MethodMembers)
    /\ Len(MethodMembers) > 0 => Len(GuardLines) = 3 * Len(MethodMembers)
    /\ \A k \in 1..Len(MethodMembers) :
          /\ Len(InterfaceLines[k]) >= 2
          /\ InterfaceLines[k][1] = "\t"
          /\ InterfaceLines[k][Len(InterfaceLines[k])] = ";"
          /\ Len(GuardLines[3 * k - 2]) >= 3
          /\ GuardLines[3 * k - 2][1] = "\t"
          /\ SubSeq(GuardLines[3 * k - 2], Len(GuardLines[3 * k - 2]) - 1,
                    Len(GuardLines[3 * k - 2])) = <<" ", "{">>
          /\ GuardLines[3 * k] = <<"\t", "}">>

\* The declaration head of a method as the input text has it:
\*   name[<T>](p1, p2)[: type]   with each parameter
\*   [...]name[?][: type][ = initializer]
ParameterSource(p) ==
    (IF p.dotDotDotToken THEN <<".", ".", ".">> ELSE EmptyText)
        \o p.name.text \o (IF p.questionToken THEN <<"?">> ELSE EmptyText)
        \o (IF p.type.kind = "undefined" THEN EmptyText
            ELSE <<":">> \o p.type.fullText)
        \o (IF p.initializer.kind = "undefined" THEN EmptyText
            ELSE <<" ", "=">> \o p.initializer.fullText)
InputHead(m) ==
    m.name.text
        \o (IF m.typeParameters.kind = "undefined" THEN EmptyText
            ELSE m.typeParameters.text)
        \o <<"(">>
        \o Join([i \in 1..Len(m.parameters) |->
                    ParameterSource(m.parameters[i])], CommaSpace)
        \o <<")">>
        \o (IF m.type.kind = "undefined" THEN EmptyText
            ELSE <<":">> \o m.type.fullText)

\* The re-rendered head: name(n1: t1, ..., nk: tk): type, the type text empty
\* for a parameter without annotation and any for a method without one.
RenderedHead(m) ==
    m.name.text \o <<"(">>
        \o Join([i \in 1..Len(m.parameters) |->
                    m.parameters[i].name.text \o ColonSpace
                        \o (IF m.parameters[i].type.kind = "undefined"
                            THEN EmptyText
                            ELSE m.parameters[i].type.fullText)],
                CommaSpace)
        \o <<")", ":", " ">>
        \o (IF m.type.kind = "undefined" THEN AnyType ELSE m.type.fullText)

\* A method whose head is nothing but a name, parameters of the form
\* name: type, and a return annotation.
PlainHead(m) ==
    /\ m.typeParameters.kind = "undefined"
    /\ m.type.kind # "undefined"
    /\ \A i \in 1..Len(m.parameters) :
          /\ m.parameters[i].type.kind # "undefined"
          /\ ~m.parameters[i].questionToken
          /\ ~m.parameters[i].dotDotDotToken
          /\ m.parameters[i].initializer.kind = "undefined"

(***************************************************************************)
(* C1                                                                      *)
(***************************************************************************)
HasTopLevelClassNamed(opts) ==
    \E i \in 1..Len(opts.inputFileText.statements) :
        LET s == opts.inputFileText.statements[i]
        IN  /\ s.kind = "ClassDeclaration"
            /\ s.name.kind = "Identifier"
            /\ s.name.text = opts.inputFileTargetClass

\* C1: when no top-level class declaration of the input has the target
\* name, generate fails with an error that carries the input identifier and
\* the target class name, and nothing is emitted (stated of the calls whose
\* input was parsed).
C1_NotFoundCarriesInputAndTarget ==
    (Located /\ ~HasTopLevelClassNamed(options)) =>
        /\ outcome.status = "thrown"
        /\ ~products.emitted
        /\ Contains(outcome.error.message,
                    TemplateText(withDefaults(options).inputFileName))
        /\ Contains(outcome.error.message, options.inputFileTargetClass)

(***************************************************************************)
(* C2                                                                      *)
(***************************************************************************)
Classified == queueMethod # NotCalled

\* lit, then at least one character, then a ">" that closes it, all on one
\* line, and no "[", "|" or "]" from there to the end of the text.
GenericToTheEnd(lit, t) ==
    \E i \in 1..Len(t) :
        /\ HasLiteralAt(lit, t, i)
        /\ \E j \in (i + Len(lit) + 1)..Len(t) :
              /\ t[j] = ">"
              /\ \A k \in 1..(j - 1) : t[k] \notin LineTerminators
              /\ \A k \in (j + 1)..Len(t) : t[k] \notin {"[", "|", "]"}

\* lit, then at least one character, then a ">" that is not immediately
\* followed by a bracket.
GenericNotArraySuffixed(lit, t) ==
    \E i \in 1..Len(t) :
        /\ HasLiteralAt(lit, t, i)
        /\ \E j \in (i + Len(lit) + 1)..Len(t) :
              /\ t[j] = ">"
              /\ \A k \in 1..(j - 1) : t[k] \notin LineTerminators
              /\ ~(j < Len(t) /\ t[j + 1] \in {"[", "]"})

\* Angle and square brackets are balanced in t, which is on one line.
RECURSIVE Depth(_, _, _, _)
Depth(t, k, open, close) ==
    IF k = 0 THEN 0
    ELSE Depth(t, k - 1, open, close)
             + (IF t[k] = open THEN 1 ELSE IF t[k] = close THEN -1 ELSE 0)
Balanced(t) ==
    /\ \A k \in 1..Len(t) :
          /\ Depth(t, k, "<", ">") >= 0
          /\ Depth(t, k, "[", "]") >= 0
          /\ t[k] \notin LineTerminators
    /\ Depth(t, Len(t), "<", ">") = 0
    /\ Depth(t, Len(t), "[", "]") = 0

Letters ==
    { "a", "b", "c", "d", "e", "f", "g", "h", "i", "j", "k", "l", "m",
      "n", "o", "p", "q", "r", "s", "t", "u", "v", "w", "x", "y", "z",
      "A", "B", "C", "D", "E", "F", "G", "H", "I", "J", "K", "L", "M",
      "N", "O", "P", "Q", "R", "S", "T", "U", "V", "W", "X", "Y", "Z" }

\* t reads as a type: balanced, names where names belong, [ ] only as the
\* array suffix [], | only between operands.
TypeLike(t) ==
    /\ Balanced(t)
    /\ Len(t) > 0
    /\ t[1] \in Letters
    /\ t[Len(t)] \in Letters \cup {">", "]"}
    /\ \A k \in 1..(Len(t) - 1) :
          /\ t[k] = "<" => t[k + 1] \in Letters
          /\ t[k] = "|" => t[k + 1] \in Letters \cup {" "}
          /\ t[k] = " " => t[k + 1] \in Letters \cup {"|"}
          /\ t[k] = "[" => t[k + 1] = "]"
          /\ t[k + 1] = "|" => t[k] \in Letters \cup {">", "]", " "}
          /\ t[k + 1] = "[" => t[k] \in Letters \cup {">", "]"}
          /\ t[k + 1] = "]" => t[k] = "["
          /\ t[k + 1] = ">" => t[k] \in Letters \cup {">", "]"}

ExamplesClassified ==
    /\ returnTypeText = ExampleObservableString => queueMethod = Str(<<"o", "b", "s", "e", "r", "v", "e">>)
    /\ returnTypeText = ExamplePromiseVoid => queueMethod = Str(<<"a", "d", "d">>)
    /\ returnTypeText \in {ExampleObservableArray, ExampleVoid, AnyType}
           => queueMethod = Undefined

\* C2 (as claimed): Stream when the text contains an Observable<...> that is
\* not immediately followed by an array bracket, else Deferred when it
\* contains such a Promise<...>, else Direct (stated of the texts that read
\* as a type).
C2_ClassifiedByArraySuffix ==
    (Classified /\ TypeLike(returnTypeText)) =>
        queueMethod =
            IF GenericNotArraySuffixed(ObservableOpen, returnTypeText)
            THEN Str(<<"o", "b", "s", "e", "r", "v", "e">>)
            ELSE IF GenericNotArraySuffixed(PromiseOpen, returnTypeText)
            THEN Str(<<"a", "d", "d">>)
            ELSE Undefined

\* C2 (amended): Stream when the text contains Observable<, at least one
\* character and then a ">", with no line terminator anywhere before that
\* ">", after which no "[", "|" or "]" occurs up to the end of the text; else Deferred when the same holds of
\* Promise<; else Direct. The spec's five examples classify as it says.
C2_ClassifiedByBracketFreeTail ==
    Classified =>
        /\ queueMethod =
               IF GenericToTheEnd(ObservableOpen, returnTypeText)
               THEN Str(<<"o", "b", "s", "e", "r", "v", "e">>)
               ELSE IF GenericToTheEnd(PromiseOpen, returnTypeText)
               THEN Str(<<"a", "d", "d">>)
               ELSE Undefined
        /\ ExamplesClassified

\* A text that satisfies both patterns was classified Stream.
C2_Witness ==
    /\ Classified
    /\ GenericToTheEnd(ObservableOpen, returnTypeText)
    /\ GenericToTheEnd(PromiseOpen, returnTypeText)
    /\ queueMethod = Str(<<"o", "b", "s", "e", "r", "v", "e">>)

(***************************************************************************)
(* C3                                                                      *)
(***************************************************************************)
AllParametersAnnotated(m) ==
    \A i \in 1..Len(m.parameters) : m.parameters[i].type.kind # "undefined"

\* C3 (as claimed): the head emitted for every method, in the interface and
\* in the class, is the method's declaration head in the input (compared
\* without regard to blanks, and stated of the methods whose parameters all
\* have a type annotation).
C3_HeadsAreInputHeads ==
    Called1 =>
        /\ EmittedShape
        /\ \A k \in 1..Len(MethodMembers) :
              AllParametersAnnotated(MethodMembers[k]) =>
                  /\ StripBlanks(InterfaceHead(k))
                         = StripBlanks(InputHead(MethodMembers[k]))
                  /\ StripBlanks(GuardHead(k))
                         = StripBlanks(InputHead(MethodMembers[k]))

\* C3 (amended): the head emitted for every method, in the interface and in
\* the class, is the re-rendered head name(n1: t1, ...): type of that method,
\* which keeps of the input's head the name, the parameters' names and
\* annotation texts and the return annotation text, and nothing else. It is
\* the input's head, blanks apart, exactly when that head is nothing but a
\* name, parameters of the form name: type, and a return annotation (no type
\* parameters, no rest or optional parameter, no initializer, no missing
\* annotation).
C3_HeadsAreRenderedHeads ==
    Called1 =>
        /\ EmittedShape
        /\ \A k \in 1..Len(MethodMembers) :
              /\ InterfaceHead(k) = RenderedHead(MethodMembers[k])
              /\ GuardHead(k) = RenderedHead(MethodMembers[k])
              /\ PlainHead(MethodMembers[k])
                     <=> StripBlanks(InterfaceHead(k))
                             = StripBlanks(InputHead(MethodMembers[k]))

\* A class was emitted whose first method has type parameters and a rest
\* parameter and whose second has a plain head with a parameter.
C3_Witness ==
    /\ Called1
    /\ Len(MethodMembers) = 2
    /\ MethodMembers[1].typeParameters.kind # "undefined"
    /\ Len(MethodMembers[1].parameters) > 0
    /\ MethodMembers[1].parameters[1].dotDotDotToken
    /\ PlainHead(MethodMembers[2])
    /\ Len(MethodMembers[2].parameters) > 0

(***************************************************************************)
(* C4                                                                      *)
(***************************************************************************)
MethodPositions ==
    {i \in 1..Len(TargetMembers) : TargetMembers[i].kind = "MethodDeclaration"}
RankOf(i) == Cardinality({j \in MethodPositions : j <= i})
\* The name a head starts with: what stands before its first "(".
NameOfHead(head) ==
    LET i == CHOOSE k \in 1..Len(head) :
                 head[k] = "(" /\ \A j \in 1..(k - 1) : head[j] # "("
    IN  SubSeq(head, 1, i - 1)

\* C4: the extracted list has one entry per method declaration of the class,
\* none for another member, in declaration order, and the interface and the
\* class list the methods in that order.
C4_MethodsInDeclarationOrder ==
    Called1 =>
        /\ Len(Emission.methodDeclarations) = Cardinality(MethodPositions)
        /\ EmittedShape
        /\ \A i \in MethodPositions :
              /\ Emission.methodDeclarations[RankOf(i)].name
                     = TargetMembers[i].name.text
              /\ NameOfHead(InterfaceHead(RankOf(i))) = TargetMembers[i].name.text
              /\ NameOfHead(GuardHead(RankOf(i))) = TargetMembers[i].name.text

\* A class with a non-method member between two methods of different names.
C4_Witness ==
    /\ Called1
    /\ Len(TargetMembers) = 3
    /\ MethodPositions = {1, 3}
    /\ TargetMembers[1].name # TargetMembers[3].name

(***************************************************************************)
(* C5                                                                      *)
(***************************************************************************)
DelegatingCall(md) ==
    <<"t", "h", "i", "s", ".", "s", "o", "u", "r", "c", "e", ".">> \o md.name \o <<"(">>
        \o Join([i \in 1..Len(md.args) |-> md.args[i].name], CommaSpace)
        \o <<")">>
ExpectedReturn(md) ==
    LET qm == getQueueMethodForReturnType(md.returnType)
    IN  IF qm = Undefined THEN DelegatingCall(md)
        ELSE IF qm = Str(<<"o", "b", "s", "e", "r", "v", "e">>)
        THEN <<"t", "h", "i", "s", ".", "q", "u", "e", "u", "e", ".", "o",
          "b", "s", "e", "r", "v", "e", "(", "(", ")", " ", "=", ">",
          " ">> \o DelegatingCall(md) \o <<")">>
        ELSE <<"t", "h", "i", "s", ".", "q", "u", "e", "u", "e", ".", "a",
          "d", "d", "(", "(", ")", " ", "=", ">", " ">> \o DelegatingCall(md) \o <<")">>

\* C5: the body of every guard method returns the delegating call when the
\* return type classifies as Direct, this.queue.observe of a closure making
\* that call when it classifies as Stream, this.queue.add of it when it
\* classifies as Deferred.
C5_BodyFollowsClassifier ==
    Called1 =>
        /\ EmittedShape
        /\ \A k \in 1..Len(Emission.methodDeclarations) :
              GuardBody(k) = <<"\t", "\t", "r", "e", "t", "u", "r", "n", " ">>
                  \o ExpectedReturn(Emission.methodDeclarations[k]) \o <<";">>

\* A method with two parameters whose return type classifies as Stream was
\* emitted.
C5_Witness ==
    /\ Called1
    /\ \E k \in 1..Len(Emission.methodDeclarations) :
          /\ Len(Emission.methodDeclarations[k].args) = 2
          /\ getQueueMethodForReturnType(
                 Emission.methodDeclarations[k].returnType) = Str(<<"o", "b", "s", "e", "r", "v", "e">>)

(***************************************************************************)
(* C6                                                                      *)
(***************************************************************************)
NamedClassPositions(opts) ==
    {i \in 1..Len(opts.inputFileText.statements) :
        LET s == opts.inputFileText.statements[i]
        IN  /\ s.kind = "ClassDeclaration"
            /\ s.name.kind = "Identifier"
            /\ s.name.text = opts.inputFileTargetClass}

\* C6: the locator returns the first direct child of the unit that is a class
\* declaration whose identifier equals the target name, and nothing when no
\* direct child is such a class.
C6_FirstTopLevelClassNamed ==
    Located =>
        IF NamedClassPositions(options) = {}
        THEN products.classNode = Undefined
        ELSE products.classNode =
                 options.inputFileText.statements[
                     CHOOSE i \in NamedClassPositions(options) :
                         \A j \in NamedClassPositions(options) : i <= j]

(***************************************************************************)
(* C7                                                                      *)
(***************************************************************************)
SameInput(a, b) ==
    /\ a.inputFileText = b.inputFileText
    /\ a.inputFileTargetClass = b.inputFileTargetClass

\* Both file names are strings or left out.
UsableNames(o) ==
    o.inputFileName.kind # "undefined" /\ o.outputFileName.kind # "undefined"

ValidMethodHead(md) ==
    /\ md.declarationText =
           md.name \o <<"(">>
               \o Join([i \in 1..Len(md.args) |->
                           md.args[i].name \o ColonSpace \o md.args[i].type],
                       CommaSpace)
               \o <<")", ":", " ">> \o md.returnType
    /\ Len(md.name) > 0
    /\ HasNonBlank(md.returnType)
    /\ \A i \in 1..Len(md.args) :
          Len(md.args[i].name) > 0 /\ HasNonBlank(md.args[i].type)

\* C8: the declarationText of every extracted method is a valid method head
\* name(arg1: type1, ..., argN: typeN): returnType, also when a parameter or
\* the method has no annotation.
C8_DeclarationTextIsValidHead ==
    Called1 =>
        \A k \in 1..Len(Emission.methodDeclarations) :
            ValidMethodHead(Emission.methodDeclarations[k])

(***************************************************************************)
(* C9                                                                      *)
(***************************************************************************)
ArgumentOf(p) ==
    [kind |-> "object", name |-> p.name.text,
     type |-> IF p.type.kind = "undefined" THEN EmptyText ELSE p.type.fullText]

\* C9 (as claimed): args has one entry for each parameter that is a simple
\* named parameter, in order, and none for another parameter.
C9_ArgsAreSimpleParameters ==
    Called1 =>
        /\ Len(Emission.methodDeclarations) = Len(MethodMembers)
        /\ \A k \in 1..Len(MethodMembers) :
              Emission.methodDeclarations[k].args =
                  LET simple ==
                          SelectSeq(MethodMembers[k].parameters,
                                    LAMBDA p : p.name.kind = "Identifier")
                  IN  [i \in 1..Len(simple) |-> ArgumentOf(simple[i])]

\* C9 (amended): args has one entry for every formal parameter, in declared
\* order, a destructuring pattern included (its name is the pattern's text);
\* type is the annotation's text, or empty without annotation.
C9_ArgsAreAllParameters ==
    Called1 =>
        /\ Len(Emission.methodDeclarations) = Len(MethodMembers)
        /\ \A k \in 1..Len(MethodMembers) :
              Emission.methodDeclarations[k].args =
                  [i \in 1..Len(MethodMembers[k].parameters) |->
                      ArgumentOf(MethodMembers[k].parameters[i])]

\* A method with a destructuring parameter and a parameter without
\* annotation was extracted.
C9_Witness ==
    /\ Called1
    /\ \E k \in 1..Len(MethodMembers) :
          /\ Len(MethodMembers[k].parameters) = 2
          /\ MethodMembers[k].parameters[1].name.kind = "ObjectBindingPattern"
          /\ MethodMembers[k].parameters[2].type.kind = "undefined"

(***************************************************************************)
(* C10                                                                     *)
(***************************************************************************)
ProcessingFails(dir) == guardOutcome(dir).status \in {"uncaught", "thrown"}

\* C10: when the script ends, generatePluginGuard was attempted for every
\* directory and failures holds one entry per directory whose processing
\* failed.
C10_EveryDirectoryAttempted ==
    phase \in {"finished", "crashed"} =>
        /\ runCount = Len(pluginDirectories)
        /\ Len(failures) =
               Cardinality({i \in 1..Len(pluginDirectories) :
                               ProcessingFails(pluginDirectories[i])})
====
